---------------------------- MODULE Spec2Model ----------------------------
(***************************************************************************)
(* A model of src/app.py: the line-delimited JSON reader (DataReader) and  *)
(* the three queries of AnalyticsEngine (top_k_users_by, commits_at,       *)
(* filter_repo_commit).                                                    *)
(*                                                                         *)
(* Strings that the code takes apart (timestamps, file names) are          *)
(* sequences of one-character strings; strings it only compares (type      *)
(* tags, repository names, urls) are TLA+ strings.  A JSON value is a      *)
(* record [isdict, keys, ...]: isdict says whether json.loads produced a   *)
(* dict, keys is the set of keys the dict has, and the remaining fields    *)
(* hold the values of the keys that are present.                           *)
(***************************************************************************)
EXTENDS Integers, Sequences, FiniteSets, TLC

VARIABLES
    \* ---- DataReader.__init__ ----
    directory,          \* argument `directory` (NoArg = None)
    file,               \* argument `file` (NoArg = None)
    listing,            \* what os.listdir(directory) returns, in its order
    self_files,         \* self.files: the list of paths
    ctor,               \* "new", "ok", or the exception __init__ raised
    \* ---- DataReader iteration ----
    files,              \* the content of the files of self.files: lines
    file_iter,          \* self.file_iter: index of the next file to open
    current_file,       \* self.current_file: index of a file object, or None
    current_line_iter,  \* self.current_line_iter: next line index, or None
    openHandles,        \* the file objects opened and not yet closed
    pc,                 \* position inside __next__: "idle", "loop", "try"
    line,               \* the local `line` of __next__
    outcome,            \* how the last __next__ call ended
    yielded,            \* the events returned so far, in order
    yieldedFrom,        \* the file each returned event came from
    opened,             \* the files opened so far, in order
    diag,               \* the diagnostics printed so far
    ended,              \* StopIteration has been raised by __next__
    \* ---- AnalyticsEngine ----
    actions,            \* self.actions: the buffer
    query,              \* the last query and its arguments
    result              \* what the last query returned (or raised)

vars == <<directory, file, listing, self_files, ctor,
          files, file_iter, current_file, current_line_iter, openHandles,
          pc, line, outcome, yielded, yieldedFrom, opened, diag, ended,
          actions, query, result>>

ctorVars   == <<directory, file, listing, self_files, ctor>>
readerVars == <<files, file_iter, current_file, current_line_iter,
                openHandles, pc, line, outcome, yielded, yieldedFrom,
                opened, diag, ended>>
engineVars == <<actions, query, result>>

\* ------------------------------------------------------------------
\* Bounds of the model
\* ------------------------------------------------------------------
MaxFiles   == 2     \* files in the reader's file list
MaxLines   == 2     \* lines in all the files of the list together
MaxEntries == 3     \* entries of the directory given to the reader
MaxActions == 3     \* events in the engine's buffer
MaxK       == 3     \* the targets of a query are -MaxK..MaxK

\* ------------------------------------------------------------------
\* Python values
\* ------------------------------------------------------------------
None == 0

Min(a, b) == IF a <= b THEN a ELSE b
Max(a, b) == IF a >= b THEN a ELSE b

\* ------------------------------------------------------------------
\* Characters and timestamps
\* ------------------------------------------------------------------
Digits == {"0", "1", "2", "3", "4", "5", "6", "7", "8", "9"}

DigitVal(c) ==
    CASE c = "0" -> 0 [] c = "1" -> 1 [] c = "2" -> 2 [] c = "3" -> 3
      [] c = "4" -> 4 [] c = "5" -> 5 [] c = "6" -> 6 [] c = "7" -> 7
      [] c = "8" -> 8 [] c = "9" -> 9

DigitChar(n) ==
    CASE n = 0 -> "0" [] n = 1 -> "1" [] n = 2 -> "2" [] n = 3 -> "3"
      [] n = 4 -> "4" [] n = 5 -> "5" [] n = 6 -> "6" [] n = 7 -> "7"
      [] n = 8 -> "8" [] n = 9 -> "9"

\* The length of the run of digits of s that starts at position i.
RECURSIVE RunLen(_, _)
RunLen(s, i) ==
    IF i <= Len(s) /\ s[i] \in Digits THEN 1 + RunLen(s, i + 1) ELSE 0

\* The number written by the n digits of s that start at position i.
RECURSIVE NumAt(_, _, _)
NumAt(s, i, n) ==
    IF n = 0 THEN 0
    ELSE 10 * NumAt(s, i, n - 1) + DigitVal(s[i + n - 1])

IsLeap(y) == (y % 4 = 0 /\ y % 100 # 0) \/ y % 400 = 0

DaysIn(y, m) ==
    IF m \in {4, 6, 9, 11} THEN 30
    ELSE IF m = 2 THEN (IF IsLeap(y) THEN 29 ELSE 28)
    ELSE 31

\* A literal of the format matches without regard to case.
LitAt(s, i, upper, lower) == i <= Len(s) /\ s[i] \in {upper, lower}

NoTime == [ok |-> FALSE, H |-> 0, M |-> 0, S |-> 0]

\* datetime.strptime(s, "%Y-%m-%dT%H:%M:%SZ"): %Y takes exactly four
\* digits, the other directives one or two; every literal must follow its
\* field at once and nothing may remain after the Z.  The result is the
\* clock value, or ok = FALSE where strptime raises ValueError.
strptime(s) ==
    LET yL == RunLen(s, 1)
        mP == yL + 2
        mL == RunLen(s, mP)
        dP == mP + mL + 1
        dO == IF LitAt(s, dP, " ", " ") THEN 1 ELSE 0   \* %d also takes " 5"
        dL == RunLen(s, dP + dO)
        hP == dP + dO + dL + 1
        hL == RunLen(s, hP)
        nP == hP + hL + 1
        nL == RunLen(s, nP)
        sP == nP + nL + 1
        sL == RunLen(s, sP)
        shape == /\ yL = 4
                 /\ LitAt(s, mP - 1, "-", "-")
                 /\ mL \in {1, 2}
                 /\ LitAt(s, dP - 1, "-", "-")
                 /\ dL \in (IF dO = 1 THEN {1} ELSE {1, 2})
                 /\ LitAt(s, hP - 1, "T", "t")
                 /\ hL \in {1, 2}
                 /\ LitAt(s, nP - 1, ":", ":")
                 /\ nL \in {1, 2}
                 /\ LitAt(s, sP - 1, ":", ":")
                 /\ sL \in {1, 2}
                 /\ LitAt(s, sP + sL, "Z", "z")
                 /\ Len(s) = sP + sL
    IN  IF ~shape THEN NoTime
        ELSE LET y  == NumAt(s, 1, 4)
                 m  == NumAt(s, mP, mL)
                 d  == NumAt(s, dP + dO, dL)
                 h  == NumAt(s, hP, hL)
                 mi == NumAt(s, nP, nL)
                 se == NumAt(s, sP, sL)
             IN  IF /\ y >= 1
                    /\ m \in 1..12
                    /\ d \in 1..DaysIn(y, m)
                    /\ h \in 0..23
                    /\ mi \in 0..59
                    /\ se \in 0..59
                 THEN [ok |-> TRUE, H |-> h, M |-> mi, S |-> se]
                 ELSE NoTime

\* dt.strftime("%H:%M:%S"): each field zero-padded to two digits.
strftime(dt) ==
    << DigitChar(dt.H \div 10), DigitChar(dt.H % 10), ":",
       DigitChar(dt.M \div 10), DigitChar(dt.M % 10), ":",
       DigitChar(dt.S \div 10), DigitChar(dt.S % 10) >>

\* Timestamps and times of day used as inputs.
TS_Noon     == <<"2","0","1","5","-","0","1","-","0","1","T","1","2",":","0","0",":","0","0","Z">>
TS_NoonNext == <<"2","0","1","5","-","0","1","-","0","2","T","1","2",":","0","0",":","0","0","Z">>
TS_Early    == <<"2","0","1","5","-","0","1","-","0","1","T","0","0",":","0","0",":","0","1","Z">>
TS_Unpadded == <<"2","0","1","5","-","1","-","1","T","7",":","5",":","9","Z">>
TS_NoZone   == <<"2","0","1","5","-","0","1","-","0","1","T","1","2",":","0","0",":","0","0">>
TS_Feb30    == <<"2","0","1","5","-","0","2","-","3","0","T","1","2",":","0","0",":","0","0","Z">>
TS_Lower    == <<"2","0","1","5","-","0","1","-"," ","1","t","0","0",":","0","0",":","0","1","z">>
TS_Sec60    == <<"2","0","1","5","-","0","1","-","0","1","T","1","2",":","0","0",":","6","0","Z">>
TS_Empty    == <<>>

T_Noon      == <<"1","2",":","0","0",":","0","0">>
T_Early     == <<"0","0",":","0","0",":","0","1">>
T_Padded    == <<"0","7",":","0","5",":","0","9">>
T_Unpadded  == <<"7",":","5",":","9">>

\* ------------------------------------------------------------------
\* The dataclasses and the JSON objects they are built from
\* ------------------------------------------------------------------
ActionFields == {"id", "type", "public", "actor", "repo", "created_at"}
UserFields   == {"id", "login", "url", "avatar_url"}
RepoFields   == {"id", "name", "url"}

PushEvent        == "PushEvent"
PullRequestEvent == "PullRequestEvent"
IssuesEvent      == "IssuesEvent"
WatchEvent       == "WatchEvent"

User(id) == [id |-> id, login |-> "login", url |-> "user-url",
             avatar_url |-> "avatar"]
Repo(id, name, url) == [id |-> id, name |-> name, url |-> url]
Action(type, actor, repo, created_at) ==
    [id |-> "event", type |-> type, public |-> TRUE, actor |-> actor,
     repo |-> repo, created_at |-> created_at]

\* JSON text of an actor, a repository, an event: the keys it has, and the
\* values of the fields.
JActor(keys, id) ==
    [isdict |-> TRUE, keys |-> keys, id |-> id, login |-> "login",
     url |-> "user-url", avatar_url |-> "avatar"]
JRepo(keys, id, name) ==
    [isdict |-> TRUE, keys |-> keys, id |-> id, name |-> name,
     url |-> "repo-url"]
JNotADict == [isdict |-> FALSE, keys |-> {}, id |-> "", type |-> "",
              public |-> TRUE, actor |-> JActor({}, 0),
              repo |-> JRepo({}, 0, ""), created_at |-> TS_Empty]
JEvent(keys, type, actor, repo, created_at) ==
    [isdict |-> TRUE, keys |-> keys, id |-> "event", type |-> type,
     public |-> TRUE, actor |-> actor, repo |-> repo,
     created_at |-> created_at]

\* A line of a file: whether json.loads accepts it, and what it returns.
JLine(data) == [valid_json |-> TRUE, data |-> data]
L_NotJson   == [valid_json |-> FALSE, data |-> JNotADict]
L_Array     == JLine(JNotADict)
L_Push      == JLine(JEvent(ActionFields \cup {"payload"}, PushEvent,
                            JActor(UserFields \cup {"gravatar_id"}, 1),
                            JRepo(RepoFields, 1, "r1"), TS_Noon))
L_PullReq   == JLine(JEvent(ActionFields, PullRequestEvent,
                            JActor(UserFields, 2),
                            JRepo(RepoFields, 2, "r2"), TS_Early))
L_NoActor   == JLine(JEvent(ActionFields \ {"actor"}, PushEvent,
                            JActor(UserFields, 1),
                            JRepo(RepoFields, 1, "r1"), TS_Noon))
L_NoRepo    == JLine(JEvent(ActionFields \ {"repo"}, PushEvent,
                            JActor(UserFields, 1),
                            JRepo(RepoFields, 1, "r1"), TS_Noon))
L_EmptyType == JLine(JEvent(ActionFields, "",
                            JActor(UserFields, 1),
                            JRepo(RepoFields, 1, "r1"), TS_Noon))
L_BadTime   == JLine(JEvent(ActionFields, IssuesEvent,
                            JActor(UserFields, 2),
                            JRepo(RepoFields, 1, "r1"), TS_NoZone))

Lines == {L_NotJson, L_Array, L_Push, L_PullReq, L_NoActor, L_NoRepo,
          L_EmptyType, L_BadTime}

NoLine   == L_NotJson
NoAction == Action("", User(0), Repo(0, "", ""), TS_Empty)

SeqsUpTo(S, n) == UNION {[1..k -> S] : k \in 0..n}

RECURSIVE SumSeq(_)
SumSeq(s) == IF s = <<>> THEN 0 ELSE Head(s) + SumSeq(Tail(s))

\* The lines ls cut into files of the lengths lens.
Split(ls, lens) ==
    [i \in 1..Len(lens) |->
        SubSeq(ls, SumSeq(SubSeq(lens, 1, i - 1)) + 1,
                   SumSeq(SubSeq(lens, 1, i)))]


\* ------------------------------------------------------------------
\* DataReader: decoding one line
\* ------------------------------------------------------------------
\* _dict_to_obj(data, obj_type): data.items() needs a dict, and the
\* dataclass constructor needs every field of obj_type among the keys
\* kept.  The exception it raises, or "none".
dict_to_obj(data, fieldNames) ==
    IF ~data.isdict THEN "AttributeError"
    ELSE IF ~(fieldNames \subseteq (data.keys \cap fieldNames)) THEN "TypeError"
    ELSE "none"

\* The objects _dict_to_obj builds: the recognized fields only.
UserOf(data) == [id |-> data.id, login |-> data.login, url |-> data.url,
                 avatar_url |-> data.avatar_url]
RepoOf(data) == [id |-> data.id, name |-> data.name, url |-> data.url]
ActionOf(data) ==
    [id |-> data.id, type |-> data.type, public |-> data.public,
     actor |-> UserOf(data.actor), repo |-> RepoOf(data.repo),
     created_at |-> data.created_at]

Raise(e) == [exc |-> e, action |-> NoAction]

\* The body of the try block of __next__ once a line has been read, in
\* the order of its statements: json.loads, the Action, then data["actor"]
\* and the User, then data["repo"] and the Repo.
decode(l) ==
    IF ~l.valid_json THEN Raise("JSONDecodeError")
    ELSE LET data == l.data
             e1   == dict_to_obj(data, ActionFields)
         IN  IF e1 # "none" THEN Raise(e1)
             ELSE IF "actor" \notin data.keys THEN Raise("KeyError")
             ELSE LET e2 == dict_to_obj(data.actor, UserFields)
                  IN  IF e2 # "none" THEN Raise(e2)
                      ELSE IF "repo" \notin data.keys THEN Raise("KeyError")
                      ELSE LET e3 == dict_to_obj(data.repo, RepoFields)
                           IN  IF e3 # "none" THEN Raise(e3)
                               ELSE [exc |-> "none",
                                     action |-> ActionOf(data)]

\* A reader that drops the events whose type is empty or whose created_at
\* does not parse, as the line was malformed JSON.
try_body_validating(l) ==
    IF /\ decode(l).exc = "none"
       /\ (l.data.type = "" \/ ~strptime(l.data.created_at).ok)
    THEN Raise("JSONDecodeError")
    ELSE decode(l)

\* Lines 109-113 of __next__.
try_body(l) == decode(l)

\* ------------------------------------------------------------------
\* DataReader: files
\* ------------------------------------------------------------------
\* _open_next_file: next(self.file_iter) and open, or both fields None
\* when the file list is exhausted.
\* A reader that starts over at the first file when the list is exhausted.
open_next_file_cycle(fi, nFiles) ==
    IF fi <= nFiles
    THEN [file_iter |-> fi + 1, current_file |-> fi, current_line_iter |-> 1]
    ELSE IF nFiles >= 1
    THEN [file_iter |-> 2, current_file |-> 1, current_line_iter |-> 1]
    ELSE [file_iter |-> fi, current_file |-> None, current_line_iter |-> None]

open_next_file(fi, nFiles) ==
    IF fi <= nFiles
    THEN [file_iter |-> fi + 1, current_file |-> fi, current_line_iter |-> 1]
    ELSE [file_iter |-> fi, current_file |-> None, current_line_iter |-> None]

\* A reader that forgets to close the exhausted file.
close_file_leak(handles, f) == handles

\* self.current_file.close()
close_file(handles, f) == handles \ {f}

\* ------------------------------------------------------------------
\* DataReader.__next__
\* ------------------------------------------------------------------
ReaderDefaults ==
    /\ file_iter = 1
    /\ current_file = None
    /\ current_line_iter = None
    /\ openHandles = {}
    /\ pc = "idle"
    /\ line = NoLine
    /\ outcome = "none"
    /\ yielded = <<>>
    /\ yieldedFrom = <<>>
    /\ opened = <<>>
    /\ diag = <<>>
    /\ ended = FALSE

CtorDefaults ==
    /\ directory = <<>>
    /\ file = <<>>
    /\ listing = <<>>
    /\ self_files = <<>>
    /\ ctor = "ok"

NoQuery == [op |-> "none", target |-> 0, category |-> "None",
            time |-> <<>>, minimum_target |-> {}]

EngineDefaults ==
    /\ actions = <<>>
    /\ query = NoQuery
    /\ result = [exc |-> "none", value |-> <<>>]

\* A caller calls next(reader).
NextCall ==
    /\ pc = "idle"
    /\ pc' = "loop"
    /\ outcome' = "pending"
    /\ UNCHANGED <<files, file_iter, current_file, current_line_iter,
                   openHandles, line, yielded, yieldedFrom, opened, diag,
                   ended>>
    /\ UNCHANGED <<ctorVars, engineVars>>

\* The top of the while loop: open the next file when no line iterator is
\* at hand, and raise StopIteration when there is no next file.
LoopTop ==
    /\ pc = "loop"
    /\ IF current_line_iter = None
       THEN LET o == open_next_file(file_iter, Len(files))
            IN  /\ file_iter' = o.file_iter
                /\ current_file' = o.current_file
                /\ current_line_iter' = o.current_line_iter
                /\ IF o.current_line_iter = None
                   THEN /\ pc' = "idle"
                        /\ outcome' = "StopIteration"
                        /\ ended' = TRUE
                        /\ UNCHANGED <<openHandles, opened>>
                   ELSE /\ pc' = "try"
                        /\ openHandles' = openHandles \cup {o.current_file}
                        /\ opened' = Append(opened, o.current_file)
                        /\ UNCHANGED <<outcome, ended>>
       ELSE /\ pc' = "try"
            /\ UNCHANGED <<file_iter, current_file, current_line_iter,
                           openHandles, opened, outcome, ended>>
    /\ UNCHANGED <<files, line, yielded, yieldedFrom, diag>>
    /\ UNCHANGED <<ctorVars, engineVars>>

\* next(self.current_line_iter) raises StopIteration: close the file.
TryExhausted ==
    /\ pc = "try"
    /\ current_line_iter > Len(files[current_file])
    /\ openHandles' = close_file(openHandles, current_file)
    /\ current_line_iter' = None
    /\ pc' = "loop"
    /\ UNCHANGED <<files, file_iter, current_file, line, outcome, yielded,
                   yieldedFrom, opened, diag, ended>>
    /\ UNCHANGED <<ctorVars, engineVars>>

\* next(self.current_line_iter) gives a line: decode it, return the
\* event, or handle what the except clauses catch, or let the exception
\* out.
TryLine ==
    /\ pc = "try"
    /\ current_line_iter <= Len(files[current_file])
    /\ LET l == files[current_file][current_line_iter]
           r == try_body(l)
       IN  /\ line' = l
           /\ current_line_iter' = current_line_iter + 1
           /\ CASE r.exc = "none" ->
                     /\ yielded' = Append(yielded, r.action)
                     /\ yieldedFrom' = Append(yieldedFrom, current_file)
                     /\ outcome' = "return"
                     /\ pc' = "idle"
                     /\ UNCHANGED diag
                [] r.exc = "JSONDecodeError" ->
                     /\ diag' = Append(diag, "Skipping line")
                     /\ pc' = "loop"
                     /\ UNCHANGED <<yielded, yieldedFrom, outcome>>
                [] r.exc = "KeyError" ->
                     /\ diag' = Append(diag, "Missing key")
                     /\ pc' = "loop"
                     /\ UNCHANGED <<yielded, yieldedFrom, outcome>>
                [] OTHER ->
                     /\ outcome' = r.exc
                     /\ pc' = "idle"
                     /\ UNCHANGED <<yielded, yieldedFrom, diag>>
    /\ UNCHANGED <<files, file_iter, current_file, openHandles, opened,
                   ended>>
    /\ UNCHANGED <<ctorVars, engineVars>>

\* A reader over any file list of up to MaxFiles files (empty ones too)
\* that hold up to MaxLines lines together.
Init ==
    /\ \E ls \in SeqsUpTo(Lines, MaxLines) :
         \E lens \in SeqsUpTo(0..MaxLines, MaxFiles) :
            /\ SumSeq(lens) = Len(ls)
            /\ files = Split(ls, lens)
    /\ ReaderDefaults
    /\ CtorDefaults
    /\ EngineDefaults

Next == NextCall \/ LoopTop \/ TryExhausted \/ TryLine

Spec == Init /\ [][Next]_vars

\* The caller keeps calling next(reader), and a call that has started
\* runs on: __next__ has no suspension point.
LiveSpec == Spec /\ WF_vars(Next)


\* ------------------------------------------------------------------
\* Properties of the reader
\* ------------------------------------------------------------------
RECURSIVE Flatten(_)
Flatten(fs) == IF fs = <<>> THEN <<>> ELSE Head(fs) \o Flatten(Tail(fs))

\* The lines the reader has read so far: every line of the files opened
\* before the current one, and the lines of the current one before its
\* iterator.
Consumed ==
    IF current_line_iter = None
    THEN Flatten(SubSeq(files, 1, file_iter - 1))
    ELSE Flatten(SubSeq(files, 1, file_iter - 2))
           \o SubSeq(files[file_iter - 1], 1, current_line_iter - 1)

\* A valid line: a JSON object with every key of an event, whose actor and
\* repo are objects with every key of theirs.
IsValidLine(l) ==
    /\ l.valid_json
    /\ l.data.isdict
    /\ ActionFields \subseteq l.data.keys
    /\ l.data.actor.isdict /\ UserFields \subseteq l.data.actor.keys
    /\ l.data.repo.isdict /\ RepoFields \subseteq l.data.repo.keys

\* The event a valid line describes.
EventOfLine(l) ==
    [id |-> l.data.id, type |-> l.data.type, public |-> l.data.public,
     actor |-> [id |-> l.data.actor.id, login |-> l.data.actor.login,
                url |-> l.data.actor.url,
                avatar_url |-> l.data.actor.avatar_url],
     repo |-> [id |-> l.data.repo.id, name |-> l.data.repo.name,
               url |-> l.data.repo.url],
     created_at |-> l.data.created_at]

EventsOf(ls) ==
    LET v == SelectSeq(ls, IsValidLine)
    IN  [i \in 1..Len(v) |-> EventOfLine(v[i])]

\* A JSON object without the key actor or without the key repo.
LacksNestedKey(l) ==
    /\ l.valid_json
    /\ l.data.isdict
    /\ ~({"actor", "repo"} \subseteq l.data.keys)

\* The exceptions __next__ lets out, StopIteration aside.
Escaping == {"TypeError", "AttributeError", "KeyError", "JSONDecodeError"}

\* C1: no call of __next__ is aborted by a bad line, and a reader iterated
\* to its end has yielded exactly the events of the valid lines, in the
\* order of the lines.
C1_Resilience ==
    /\ outcome \notin Escaping
    /\ ended => yielded = EventsOf(Flatten(files))

\* C2: a line that is a JSON object without actor or repo is skipped with
\* the missing-key diagnostic: the call that read it does not end with an
\* exception, and yields nothing for it.
C2_MissingKeySkipped ==
    LacksNestedKey(line) =>
        /\ outcome \notin Escaping
        /\ outcome # "return"
        /\ diag # <<>> /\ diag[Len(diag)] = "Missing key"

\* C7 as claimed: every yielded event has a non-empty type and a created_at
\* that strptime accepts.
C7_WellFormedEvents ==
    \A i \in 1..Len(yielded) :
        /\ yielded[i].type # ""
        /\ strptime(yielded[i].created_at).ok

\* C7 as amended: the reader checks the shape of a line, not the content
\* of its fields: the events yielded are those of all the valid lines read
\* so far, with type and created_at as the line has them, empty or
\* unparseable ones included.
C7_EventsUnvalidated == yielded = EventsOf(Consumed)

\* C7, witness: an event with an empty type and one with a created_at that
\* does not parse have been yielded.
C7_Witness ==
    /\ \E i \in 1..Len(yielded) : yielded[i].type = ""
    /\ \E i \in 1..Len(yielded) : ~strptime(yielded[i].created_at).ok

\* C9: at most one file handle is open, and it is the current file's; no
\* handle is open while the reader has no line iterator (a file's lines
\* are exhausted, the next file is not yet opened), nor once the sequence
\* has ended.
C9_OneOpenHandle ==
    /\ Cardinality(openHandles) <= 1
    /\ openHandles \subseteq {current_file}
    /\ current_line_iter = None => openHandles = {}
    /\ ended => openHandles = {}

\* C9, witness: two files have been opened, the second is open and the
\* first closed.
C9_Witness ==
    /\ Len(opened) = 2
    /\ openHandles = {2}
    /\ Len(files[1]) > 0

\* The files opened so far are the first files of the list, each once.
OpenedInOrder == opened = [i \in 1..Len(opened) |-> i]

\* The events yielded so far come from the files in the order of the list.
YieldedInFileOrder ==
    \A i, j \in 1..Len(yieldedFrom) : i < j => yieldedFrom[i] <= yieldedFrom[j]

\* C10: repeated calls of __next__ reach StopIteration; until then the
\* files are opened once each in the order of the list, and the events
\* come in the order of the files; once StopIteration has been raised,
\* a further call raises it again, returns nothing and opens nothing.
C10_Termination ==
    /\ <>ended
    /\ [](OpenedInOrder /\ YieldedInFileOrder)
    /\ [](ended => opened = [i \in 1..Len(files) |-> i])
    /\ [][ended => /\ ended'
                   /\ yielded' = yielded
                   /\ opened' = opened
                   /\ openHandles' = openHandles
                   /\ outcome' \in {"pending", "StopIteration"}]_vars

\* C10, witness: events of two files have been yielded, StopIteration has
\* been raised, and a further call is running.
C10_Witness ==
    /\ ended
    /\ pc = "loop"
    /\ {1, 2} \subseteq {yieldedFrom[i] : i \in 1..Len(yieldedFrom)}


\* ------------------------------------------------------------------
\* DataReader.__init__
\* ------------------------------------------------------------------
\* The argument None; every other argument is a sequence of characters.
NoArg == <<"None">>

\* The characters of the names below, in the order of their code points.
CodeOrder == <<".", "/", "Z", "a", "b", "d", "j", "l", "n", "o", "s", "t", "x">>
Ord(c) == CHOOSE i \in 1..Len(CodeOrder) : CodeOrder[i] = c

\* a < b for str: by the first character that differs, a proper prefix
\* first.
RECURSIVE StrLess(_, _)
StrLess(a, b) ==
    IF b = <<>> THEN FALSE
    ELSE IF a = <<>> THEN TRUE
    ELSE IF Head(a) # Head(b) THEN Ord(Head(a)) < Ord(Head(b))
    ELSE StrLess(Tail(a), Tail(b))

\* s with x put before the first element that is greater than x.
RECURSIVE InsertStr(_, _)
InsertStr(s, x) ==
    IF s = <<>> THEN <<x>>
    ELSE IF StrLess(x, Head(s)) THEN <<x>> \o s
    ELSE <<Head(s)>> \o InsertStr(Tail(s), x)

\* sorted(names)
RECURSIVE sorted(_)
sorted(names) ==
    IF names = <<>> THEN <<>>
    ELSE InsertStr(sorted(SubSeq(names, 1, Len(names) - 1)),
                   names[Len(names)])

\* f.endswith(suffix)
endswith(f, suffix) ==
    /\ Len(f) >= Len(suffix)
    /\ SubSeq(f, Len(f) - Len(suffix) + 1, Len(f)) = suffix

DotJson == <<".", "j", "s", "o", "n">>

\* os.path.join(d, f) on a POSIX system; d = None is a TypeError, which
\* the caller sees to.
path_join(d, f) ==
    IF f # <<>> /\ Head(f) = "/" THEN f
    ELSE IF d = <<>> \/ d[Len(d)] = "/" THEN d \o f
    ELSE d \o <<"/">> \o f

\* The file list __init__ computes from its arguments and the listing of
\* the directory, or the exception it raises.
init_files(dir, f, ls) ==
    IF f # NoArg /\ f # <<>>
    THEN IF dir = NoArg THEN [exc |-> "TypeError", files |-> <<>>]
         ELSE [exc |-> "none", files |-> <<path_join(dir, f)>>]
    ELSE IF dir # NoArg /\ dir # <<>>
    THEN LET js == SelectSeq(sorted(ls), LAMBDA n : endswith(n, DotJson))
         IN  [exc |-> "none",
              files |-> [i \in 1..Len(js) |-> path_join(dir, js[i])]]
    ELSE [exc |-> "ValueError", files |-> <<>>]

\* Arguments and directory entries.
P_data      == <<"d", "a", "t", "a">>
P_dataSlash == <<"d", "a", "t", "a", "/">>
P_abs       == <<"/", "a", ".", "j", "s", "o", "n">>
N_a         == <<"a", ".", "j", "s", "o", "n">>
N_ab        == <<"a", "b", ".", "j", "s", "o", "n">>
N_Z         == <<"Z", ".", "j", "s", "o", "n">>
N_txt       == <<"a", ".", "t", "x", "t">>
N_jsonl     == <<"a", ".", "j", "s", "o", "n", "l">>

DirArgs  == {NoArg, <<>>, P_data, P_dataSlash}
FileArgs == {NoArg, <<>>, N_a, P_abs}
Names    == {N_a, N_ab, N_Z, N_txt, N_jsonl}

\* The listings of a directory: its entries, each once, in any order.
Listings ==
    {ls \in SeqsUpTo(Names, MaxEntries) :
        \A i, j \in 1..Len(ls) : i # j => ls[i] # ls[j]}

\* DataReader(directory, file)
Construct ==
    /\ ctor = "new"
    /\ LET r == init_files(directory, file, listing)
       IN  /\ self_files' = r.files
           /\ ctor' = IF r.exc = "none" THEN "ok" ELSE r.exc
    /\ UNCHANGED <<directory, file, listing>>
    /\ UNCHANGED <<readerVars, engineVars>>

InitCtor ==
    /\ directory \in DirArgs
    /\ file \in FileArgs
    /\ listing \in Listings
    /\ self_files = <<>>
    /\ ctor = "new"
    /\ files = <<>>
    /\ ReaderDefaults
    /\ EngineDefaults

NextCtor == Construct

SpecCtor == InitCtor /\ [][NextCtor]_vars

\* C8: with a file alone the constructor succeeds and the file list is
\* that file; with a directory alone it succeeds and the file list is the
\* entries ending in .json, in lexicographic order; with neither it raises
\* ValueError; it raises nothing else.
C8_Construction ==
    ctor # "new" =>
        /\ ctor \in {"ok", "ValueError"}
        /\ (directory = NoArg /\ file \notin {NoArg, <<>>}) =>
              (ctor = "ok" /\ self_files = <<file>>)
        /\ (file = NoArg /\ directory \notin {NoArg, <<>>}) =>
              /\ ctor = "ok"
              /\ {self_files[i] : i \in 1..Len(self_files)} =
                    {path_join(directory, listing[i]) :
                        i \in {j \in 1..Len(listing) :
                                  endswith(listing[j], DotJson)}}
              /\ \A i, j \in 1..Len(self_files) :
                    i < j => StrLess(self_files[i], self_files[j])
        /\ (file = NoArg /\ directory = NoArg) => ctor = "ValueError"


\* ------------------------------------------------------------------
\* AnalyticsEngine.top_k_users_by
\* ------------------------------------------------------------------
\* The members of ActionCategory, and "None" for the default argument.
Categories == {"None", "ACTIVITY", "PRS", "ISSUES", "COMMITS"}

\* ActionCategory.<member>.value
category_value(c) ==
    CASE c = "ACTIVITY" -> "any"
      [] c = "PRS" -> PullRequestEvent
      [] c = "ISSUES" -> IssuesEvent
      [] c = "COMMITS" -> PushEvent

\* category.value if category else ActionCategory.ACTIVITY.value
action_filter_of(category) ==
    IF category = "None" THEN category_value("ACTIVITY")
    ELSE category_value(category)

\* A comparison that forgets the filter "any".
matches_exact(type, action_filter) == type = action_filter

\* action.type == action_filter or action_filter == "any"
matches(type, action_filter) ==
    type = action_filter \/ action_filter = "any"

\* users[id] += inc on a defaultdict(int): a new key is entered at the end
\* with 0 before the addition.  The dict is the sequence of its items in
\* the order of insertion.
dict_add(users, id, inc) ==
    IF \E i \in 1..Len(users) : users[i].id = id
    THEN [i \in 1..Len(users) |->
             IF users[i].id = id
             THEN [id |-> id, ranking |-> users[i].ranking + inc]
             ELSE users[i]]
    ELSE Append(users, [id |-> id, ranking |-> inc])

\* The loop over self.actions.
RECURSIVE count_users(_, _)
count_users(acts, action_filter) ==
    IF acts = <<>> THEN <<>>
    ELSE LET a == acts[Len(acts)]
         IN  dict_add(count_users(SubSeq(acts, 1, Len(acts) - 1),
                                  action_filter),
                      a.actor.id,
                      IF matches(a.type, action_filter) THEN 1 ELSE 0)

\* s, sorted by score descending, with x put after the elements whose
\* score is not smaller: equal scores keep their order.
RECURSIVE InsertDesc(_, _)
InsertDesc(s, x) ==
    IF s = <<>> THEN <<x>>
    ELSE IF Head(s).ranking >= x.ranking
    THEN <<Head(s)>> \o InsertDesc(Tail(s), x)
    ELSE <<x>> \o s

\* A sort that leaves out reverse=True.
RECURSIVE InsertAsc(_, _)
InsertAsc(s, x) ==
    IF s = <<>> THEN <<x>>
    ELSE IF Head(s).ranking <= x.ranking
    THEN <<Head(s)>> \o InsertAsc(Tail(s), x)
    ELSE <<x>> \o s

RECURSIVE sorted_users_ascending(_)
sorted_users_ascending(users) ==
    IF users = <<>> THEN <<>>
    ELSE InsertAsc(sorted_users_ascending(SubSeq(users, 1, Len(users) - 1)),
                   users[Len(users)])

\* sorted(users.items(), key=lambda x: x[1], reverse=True): a stable sort.
RECURSIVE sorted_users(_)
sorted_users(users) ==
    IF users = <<>> THEN <<>>
    ELSE InsertDesc(sorted_users(SubSeq(users, 1, Len(users) - 1)),
                    users[Len(users)])

\* s[:target]: a negative target counts from the end.
slice_to(s, target) ==
    IF target >= 0 THEN SubSeq(s, 1, Min(target, Len(s)))
    ELSE SubSeq(s, 1, Max(Len(s) + target, 0))

top_k_users_by(acts, target, category) ==
    slice_to(sorted_users(count_users(acts, action_filter_of(category))),
             target)

\* The events of the ranking queries: every actor with every type.
Actors == {1, 2, 3}
Types  == {PushEvent, PullRequestEvent, IssuesEvent, WatchEvent}
EventsTopK ==
    {Action(t, User(a), Repo(1, "r1", "repo-url"), TS_Noon) :
        a \in Actors, t \in Types}

\* engine.top_k_users_by(target, category), on an engine just built: a
\* query reads the buffer and writes nothing, so a later query finds the
\* engine as the first one did.
TopK ==
    \E k \in (0 - MaxK)..MaxK, c \in Categories :
        /\ query = NoQuery
        /\ query' = [NoQuery EXCEPT !.op = "top_k_users_by",
                                    !.target = k, !.category = c]
        /\ result' = [exc |-> "none",
                      value |-> top_k_users_by(actions, k, c)]
        /\ UNCHANGED actions
        /\ UNCHANGED <<ctorVars, readerVars>>

InitTopK ==
    /\ actions \in SeqsUpTo(EventsTopK, MaxActions)
    /\ query = NoQuery
    /\ result = [exc |-> "none", value |-> <<>>]
    /\ files = <<>>
    /\ ReaderDefaults
    /\ CtorDefaults

NextTopK == TopK

SpecTopK == InitTopK /\ [][NextTopK]_vars

\* The event counts for the category of the query.
Counts(a, category) ==
    category \in {"None", "ACTIVITY"} \/ a.type = category_value(category)

\* The number of events of actor id that count for the category.
Score(id, category) ==
    Cardinality({i \in 1..Len(actions) :
                    actions[i].actor.id = id /\ Counts(actions[i], category)})

ActorIds == {actions[i].actor.id : i \in 1..Len(actions)}

Descending(r) ==
    \A i, j \in 1..Len(r) : i < j => r[i].ranking >= r[j].ranking

\* C3 as claimed: the result is the first k of the actors that have an
\* event of the category, by count descending: min(k, m) entries for
\* k > 0, none for k <= 0, and no entry with score 0.
C3_TopKOfMatching ==
    query.op = "top_k_users_by" =>
        LET r == result.value
            k == query.target
            m == Cardinality({id \in ActorIds : Score(id, query.category) > 0})
        IN  /\ Len(r) = IF k > 0 THEN Min(k, m) ELSE 0
            /\ \A i \in 1..Len(r) : r[i].ranking # 0
            /\ \A i \in 1..Len(r) : r[i].ranking = Score(r[i].id, query.category)
            /\ Descending(r)

\* C3 as amended: the result is the slice [:k] of the list of ALL the
\* actors of the buffer (an actor without an event of the category is
\* listed with score 0), by count descending: min(k, n) entries for
\* k >= 0 and max(n + k, 0) entries for k < 0, n the number of actors of
\* the buffer; each entry's score is the actor's count, no actor is listed
\* twice, and no actor left out has a higher count than one listed.
C3_TopKOfAll ==
    query.op = "top_k_users_by" =>
        LET r == result.value
            k == query.target
            n == Cardinality(ActorIds)
            listed == {r[i].id : i \in 1..Len(r)}
        IN  /\ Len(r) = IF k >= 0 THEN Min(k, n) ELSE Max(n + k, 0)
            /\ listed \subseteq ActorIds
            /\ Cardinality(listed) = Len(r)
            /\ \A i \in 1..Len(r) : r[i].ranking = Score(r[i].id, query.category)
            /\ Descending(r)
            /\ \A id \in ActorIds \ listed : \A i \in 1..Len(r) :
                  Score(id, query.category) <= r[i].ranking

\* C3, witness: a ranking by pull requests with a negative target that
\* lists an actor with pull requests and then one without.
C3_Witness ==
    /\ query.op = "top_k_users_by"
    /\ query.category = "PRS"
    /\ query.target < 0
    /\ Len(result.value) = 2
    /\ result.value[1].ranking > 0
    /\ result.value[2].ranking = 0

\* The score the query gives actor id for a category when it lists all.
ScoreBy(id, category) ==
    LET r == top_k_users_by(actions, Len(actions), category)
        i == CHOOSE i \in 1..Len(r) : r[i].id = id
    IN  r[i].ranking

\* The events of actor id whose type is none of the concrete categories.
OtherEvents(id) ==
    Cardinality({i \in 1..Len(actions) :
        /\ actions[i].actor.id = id
        /\ actions[i].type \notin {PushEvent, PullRequestEvent, IssuesEvent}})

\* C4 as claimed: an actor's score for ACTIVITY is the sum of the actor's
\* scores for PRS, ISSUES and COMMITS.
C4_AnyIsSum ==
    (query.op = "top_k_users_by" /\ query.category \in {"None", "ACTIVITY"}) =>
        \A i \in 1..Len(result.value) :
            LET id == result.value[i].id
            IN  result.value[i].ranking =
                    ScoreBy(id, "PRS") + ScoreBy(id, "ISSUES")
                        + ScoreBy(id, "COMMITS")

\* C4 as amended: an actor's score for ACTIVITY is the sum of the actor's
\* scores for PRS, ISSUES and COMMITS plus the number of the actor's
\* events of any other type: never less than the sum, and equal to it
\* exactly when every event of the actor is a pull request, an issue or a
\* push.
C4_AnyIsSumPlusOthers ==
    (query.op = "top_k_users_by" /\ query.category \in {"None", "ACTIVITY"}) =>
        \A i \in 1..Len(result.value) :
            LET id == result.value[i].id
            IN  result.value[i].ranking =
                    ScoreBy(id, "PRS") + ScoreBy(id, "ISSUES")
                        + ScoreBy(id, "COMMITS") + OtherEvents(id)

\* C4, witness: a ranking by activity that lists an actor with a push and
\* an event of another type.
C4_Witness ==
    /\ query.op = "top_k_users_by"
    /\ query.category = "ACTIVITY"
    /\ \E i \in 1..Len(result.value) :
          /\ OtherEvents(result.value[i].id) > 0
          /\ ScoreBy(result.value[i].id, "COMMITS") > 0


\* ------------------------------------------------------------------
\* AnalyticsEngine.commits_at
\* ------------------------------------------------------------------
Returns(v) == [exc |-> "none", value |-> v]

\* The loop of commits_at from the i-th event on: strptime raises
\* ValueError out of the method at the first created_at it rejects.
RECURSIVE commits_at_from(_, _, _)
commits_at_from(acts, i, target) ==
    IF i > Len(acts) THEN Returns(FALSE)
    ELSE LET dt == strptime(acts[i].created_at)
         IN  IF ~dt.ok THEN [exc |-> "ValueError", value |-> FALSE]
             ELSE IF strftime(dt) = target THEN Returns(TRUE)
             ELSE commits_at_from(acts, i + 1, target)

\* A scan that compares the characters between the T and the Z, iso_time[11:19],
\* with the target, and parses nothing.
commits_at_substring(acts, target) ==
    Returns(\E i \in 1..Len(acts) :
                SubSeq(acts[i].created_at, 12,
                       Min(19, Len(acts[i].created_at))) = target)

commits_at(acts, target) == commits_at_from(acts, 1, target)

Timestamps == {TS_Noon, TS_NoonNext, TS_Early, TS_Unpadded, TS_Lower,
               TS_NoZone, TS_Feb30, TS_Sec60, TS_Empty}
Targets    == {T_Noon, T_Early, T_Padded, T_Unpadded}
EventsTime ==
    {Action(PushEvent, User(1), Repo(1, "r1", "repo-url"), ts) :
        ts \in Timestamps}
    \cup {Action(WatchEvent, User(2), Repo(2, "r2", "repo-url"), TS_Noon)}

\* engine.commits_at(target), on an engine just built.
CommitsAt ==
    \E t \in Targets :
        /\ query = NoQuery
        /\ query' = [NoQuery EXCEPT !.op = "commits_at", !.time = t]
        /\ result' = commits_at(actions, t)
        /\ UNCHANGED actions
        /\ UNCHANGED <<ctorVars, readerVars>>

InitTime ==
    /\ actions \in SeqsUpTo(EventsTime, MaxActions)
    /\ query = NoQuery
    /\ result = Returns(FALSE)
    /\ files = <<>>
    /\ ReaderDefaults
    /\ CtorDefaults

NextTime == CommitsAt

SpecTime == InitTime /\ [][NextTime]_vars

\* The created_at of the i-th event is no timestamp.
Malformed(i) == ~strptime(actions[i].created_at).ok

\* The clock value of the created_at of the i-th event, written HH:MM:SS,
\* is the target of the query.
AtTarget(i) ==
    /\ ~Malformed(i)
    /\ strftime(strptime(actions[i].created_at)) = query.time

\* C6 as claimed: commits_at returns, and returns true exactly when the
\* time of day of some event of the buffer is the target.
C6_TrueIffSomeEventAtTime ==
    query.op = "commits_at" =>
        /\ result.exc = "none"
        /\ result.value = (\E i \in 1..Len(actions) : AtTarget(i))

\* C6 as amended: commits_at scans the buffer in order and stops at the
\* first event that is at the target or whose created_at is malformed: it
\* returns true when that event is at the target (the clock value,
\* zero-padded, equal to the target), raises ValueError when that event is
\* malformed, and returns false when there is no such event (the empty
\* buffer included); date and type play no part.
C6_FirstDecides ==
    query.op = "commits_at" =>
        LET stops == {i \in 1..Len(actions) : AtTarget(i) \/ Malformed(i)}
        IN  IF stops = {} THEN result = Returns(FALSE)
            ELSE LET first == CHOOSE i \in stops : \A j \in stops : i <= j
                 IN  IF AtTarget(first) THEN result = Returns(TRUE)
                     ELSE result.exc = "ValueError"

\* C6, witness: an event is at the target, behind a malformed one, and the
\* query has raised.
C6_Witness ==
    /\ query.op = "commits_at"
    /\ Len(actions) >= 2
    /\ Malformed(1)
    /\ AtTarget(2)
    /\ result.exc = "ValueError"

\* ------------------------------------------------------------------
\* AnalyticsEngine.filter_repo_commit
\* ------------------------------------------------------------------
\* What the loop does to the dict repos for one push event: repos[repo.id]
\* enters the default at the end when the key is new, name and url are
\* set while the name held is empty, and the actor joins the set.  The
\* dict is the sequence of its items in the order of insertion.
push_to(repos, a) ==
    LET known == \E i \in 1..Len(repos) : repos[i].id = a.repo.id
        rs    == IF known THEN repos
                 ELSE Append(repos, [id |-> a.repo.id, name |-> "",
                                     url |-> "", users |-> {}])
    IN  [i \in 1..Len(rs) |->
            IF rs[i].id # a.repo.id THEN rs[i]
            ELSE [id    |-> rs[i].id,
                  name  |-> IF rs[i].name = "" THEN a.repo.name ELSE rs[i].name,
                  url   |-> IF rs[i].name = "" THEN a.repo.url ELSE rs[i].url,
                  users |-> rs[i].users \cup {a.actor.id}]]

\* The first loop of filter_repo_commit.
RECURSIVE collect_repos(_)
collect_repos(acts) ==
    IF acts = <<>> THEN <<>>
    ELSE LET prev == collect_repos(SubSeq(acts, 1, Len(acts) - 1))
             a    == acts[Len(acts)]
         IN  IF a.type = PushEvent THEN push_to(prev, a) ELSE prev

\* A range that leaves out its upper end.
in_range_exclusive(num_users, maximum_target, minimum_target) ==
    /\ minimum_target = {} \/ \A m \in minimum_target : num_users >= m
    /\ num_users < maximum_target

\* (minimum_target is None or num_users >= minimum_target) and
\* num_users <= maximum_target; minimum_target is {} for None, {m} for m.
in_range(num_users, maximum_target, minimum_target) ==
    /\ minimum_target = {} \/ \A m \in minimum_target : num_users >= m
    /\ num_users <= maximum_target

filter_repo_commit(acts, maximum_target, minimum_target) ==
    LET repos == collect_repos(acts)
        kept  == SelectSeq(repos,
                     LAMBDA info : in_range(Cardinality(info.users),
                                            maximum_target, minimum_target))
    IN  [i \in 1..Len(kept) |->
            [name |-> kept[i].name, url |-> kept[i].url,
             num_users |-> Cardinality(kept[i].users)]]

\* The events of the repository queries: pushes of two actors to two
\* repositories under three names (the url tells the actor), and an event
\* of another type and a third actor on each repository.
RepoIds   == {1, 2}
RepoNames == {"", "n1", "n2"}
UrlOf(a)  == IF a = 1 THEN "url-1" ELSE IF a = 2 THEN "url-2" ELSE "url-3"
EventsRepo ==
    {Action(PushEvent, User(a), Repo(r, n, UrlOf(a)), TS_Noon) :
        a \in {1, 2}, r \in RepoIds, n \in RepoNames}
    \cup {Action(WatchEvent, User(3), Repo(r, "n1", UrlOf(3)), TS_Noon) :
        r \in RepoIds}

\* engine.filter_repo_commit(maximum_target, minimum_target), on an engine
\* just built.
FilterRepoCommit ==
    \E mx \in 0..MaxK, mn \in {{}} \cup {{m} : m \in 0..MaxK} :
        /\ query = NoQuery
        /\ query' = [NoQuery EXCEPT !.op = "filter_repo_commit",
                                    !.target = mx, !.minimum_target = mn]
        /\ result' = Returns(filter_repo_commit(actions, mx, mn))
        /\ UNCHANGED actions
        /\ UNCHANGED <<ctorVars, readerVars>>

InitRepo ==
    /\ actions \in SeqsUpTo(EventsRepo, MaxActions)
    /\ query = NoQuery
    /\ result = Returns(<<>>)
    /\ files = <<>>
    /\ ReaderDefaults
    /\ CtorDefaults

NextRepo == FilterRepoCommit

SpecRepo == InitRepo /\ [][NextRepo]_vars

\* The push events to repository id, and the actors of these.
Pushes(id) ==
    {i \in 1..Len(actions) :
        actions[i].type = PushEvent /\ actions[i].repo.id = id}
Pushers(id) == {actions[i].actor.id : i \in Pushes(id)}

SetMin(S) == CHOOSE i \in S : \A j \in S : i <= j
SetMax(S) == CHOOSE i \in S : \A j \in S : i >= j

\* The repositories the query is to report.
InRange(id) ==
    /\ Pushes(id) # {}
    /\ Cardinality(Pushers(id)) <= query.target
    /\ \A m \in query.minimum_target : Cardinality(Pushers(id)) >= m

\* The result is one summary, by Summary, for each repository in range.
OneSummaryEach(Summary(_)) ==
    LET r    == result.value
        want == {id \in {actions[i].repo.id : i \in 1..Len(actions)} :
                    InRange(id)}
    IN  /\ result.exc = "none"
        /\ Len(r) = Cardinality(want)
        /\ \E f \in [1..Len(r) -> want] :
              /\ \A i, j \in 1..Len(r) : i # j => f[i] # f[j]
              /\ \A i \in 1..Len(r) : r[i] = Summary(f[i])

\* name and url of the first push to the repository.
SummaryFirstPush(id) ==
    LET e == actions[SetMin(Pushes(id))]
    IN  [name |-> e.repo.name, url |-> e.repo.url,
         num_users |-> Cardinality(Pushers(id))]

\* name and url of the first push to the repository that has a name; when
\* no push has one, the empty name and the url of the last push.
SummaryFirstNamedPush(id) ==
    LET named == {i \in Pushes(id) : actions[i].repo.name # ""}
        e     == IF named # {} THEN actions[SetMin(named)]
                 ELSE actions[SetMax(Pushes(id))]
    IN  [name |-> e.repo.name, url |-> e.repo.url,
         num_users |-> Cardinality(Pushers(id))]

\* C5 as claimed: one summary for each repository with a push whose number
\* of distinct pushing actors is in the range, none for another; num_users
\* is that number, name and url are those of the first push to the
\* repository; other events play no part.
C5_FirstPushNames ==
    query.op = "filter_repo_commit" => OneSummaryEach(SummaryFirstPush)

\* C5 as amended: the same, but name and url are those of the first push
\* to the repository whose repository name is not empty; when every push
\* to it has an empty name, the name is empty and the url is that of the
\* last push.
C5_FirstNamedPushNames ==
    query.op = "filter_repo_commit" => OneSummaryEach(SummaryFirstNamedPush)

\* C5, witness: a repository pushed to by two actors, first under an empty
\* name, is reported under the name and url of the second push, and an
\* event of another type and actor is in the buffer.
C5_Witness ==
    /\ query.op = "filter_repo_commit"
    /\ Len(actions) = 3
    /\ Len(result.value) = 1
    /\ result.value[1].num_users = 2
    /\ \E id \in RepoIds :
          /\ Cardinality(Pushes(id)) = 2
          /\ actions[SetMin(Pushes(id))].repo.name = ""
          /\ result.value[1].name = actions[SetMax(Pushes(id))].repo.name
          /\ result.value[1].name # ""
          /\ \E i \in 1..Len(actions) :
                actions[i].type # PushEvent /\ actions[i].repo.id = id

=============================================================================
